---- MODULE Spec2Model ----
(***************************************************************************)
(* LEDAnimator (omi_firmware/led_animation_library.h): the status-LED      *)
(* animation state machine, its one-shot effects (begin(),                 *)
(* showWiFiConnected(), showButtonPress()), called by one driver loop.     *)
(*                                                                         *)
(* A call runs in one step up to its next delay().  delay() suspends the   *)
(* caller: its position in the call is kept in pc, the time passes in      *)
(* steps of its own, and the call goes on in a later step when the clock   *)
(* has reached the end of the delay.  No other call is made meanwhile.     *)
(***************************************************************************)
EXTENDS Integers, Sequences, FiniteSets

VARIABLES
    currentState,   \* AnimationState currentState
    lastUpdate,     \* unsigned long lastUpdate, as its 32 bits (see Sub32)
    animationStep,  \* int animationStep
    brightness,     \* int brightness
    direction,      \* bool direction
    pulsePhase,     \* static int pulsePhase of connectingPulse()
    millis0,        \* what millis() read when the run began, as its 32 bits
    clock,          \* milliseconds since the run began, not truncated
    pc,             \* where the caller is inside a call (the delay() it is
                    \* in, the loop variables, the clock at which the delay
                    \* ends), or "out"
    duty,           \* PWM output: the last duty argument handed to ledcWrite
    dutyAt,         \* PWM output: the clock at that ledcWrite
    wrote,          \* the last step called ledcWrite
    blocked,        \* ms the most recent update() call spends inside delay()
    printed,        \* the last step printed "LED State" on Serial
    op,             \* the last step: "new", "setState", "update" (a call of
                    \* update() up to its delay or its end), "resume" (the
                    \* rest of update() after the delay), "begin", "wifi",
                    \* "button" (a step of that effect), "clock"
    switches,       \* how many times the firmware has changed the state
    effects,        \* how many one-shot effects the firmware has started
    writes          \* ledcWrite calls of update() since currentState last
                    \* changed, counted up to MaxCount

vars == <<currentState, lastUpdate, animationStep, brightness, direction,
          pulsePhase, millis0, clock, pc, duty, dutyAt, wrote, blocked,
          printed, op, switches, effects, writes>>

engine == <<currentState, lastUpdate, animationStep, brightness, direction>>

\* enum AnimationState
IDLE == "IDLE"
RECORDING == "RECORDING"
PROCESSING == "PROCESSING"
UPLOADING == "UPLOADING"
SUCCESS == "SUCCESS"
ERROR == "ERROR"
CONNECTING == "CONNECTING"
LISTENING == "LISTENING"
BRUTAL_FEEDBACK == "BRUTAL_FEEDBACK"
LOW_BATTERY == "LOW_BATTERY"

AnimationState == {IDLE, RECORDING, PROCESSING, UPLOADING, SUCCESS, ERROR,
                   CONNECTING, LISTENING, BRUTAL_FEEDBACK, LOW_BATTERY}

\* the caller is not inside a call
Out == [at |-> "out", n |-> 0, b |-> 0, wake |-> 0]

(***************************************************************************)
(* Bounds of the model.                                                    *)
(***************************************************************************)
\* Calls are made, and time passes between calls, only up to MaxTime; a
\* call in progress then runs to its end.
MaxTime == 240
\* update() is not called in PROCESSING or LISTENING beyond this step count.
MaxStep == 40
\* update() is called at most MaxLate ms after a tick has become due.
MaxLate == 1
\* The firmware changes the state at most MaxSwitch times.
MaxSwitch == 2
\* The writes of one stay in a state are counted up to MaxCount.
MaxCount == 8

(***************************************************************************)
(* The clock.  millis() and lastUpdate are unsigned long, 32 bits wide.    *)
(* TLC's integers are the 32-bit signed ones, so a value of that type is   *)
(* held as its 32 bits read in two's complement: u below 2^31 as u, u from *)
(* 2^31 on as u - 2^32.  Addition and subtraction mod 2^32 give the same   *)
(* bits in both readings; the comparison is the unsigned one.              *)
(***************************************************************************)
MaxInt32 == 2147483647

MinInt32 == 0 - MaxInt32 - 1

\* a + b mod 2^32
Add32(a, b) ==
    IF b > 0 /\ a > MaxInt32 - b
    THEN (((a - MaxInt32) - 1) + b) - MaxInt32 - 1
    ELSE IF b < 0 /\ a < MinInt32 - b
    THEN (((a + MaxInt32) + 1) + b) + MaxInt32 + 1
    ELSE a + b

\* a - b mod 2^32
Sub32(a, b) ==
    IF b < 0 /\ a > MaxInt32 + b
    THEN (((a - MaxInt32) - 1) - b) - MaxInt32 - 1
    ELSE IF b > 0 /\ a < MinInt32 + b
    THEN (((a + MaxInt32) + 1) - b) + MaxInt32 + 1
    ELSE a - b

\* a > b for unsigned a and b
UGreater(a, b) == IF (a < 0) = (b < 0) THEN a > b ELSE a < 0

\* millis(): the counter has gone on by clock since the run began
millis == Add32(millis0, clock)

\* millis() - lastUpdate held back at 0 when the counter reads less than
\* lastUpdate
ElapsedClamped ==
    IF UGreater(lastUpdate, millis) THEN 0 ELSE Sub32(millis, lastUpdate)

\* millis() - lastUpdate in unsigned arithmetic
Elapsed == Sub32(millis, lastUpdate)

(***************************************************************************)
(* (int)((sin(animationStep * 0.1) + 1) * 127) for animationStep 1..64 and *)
(* (int)((sin(animationStep * 0.05) + 1) * 80 + 20) for 1..64, in double   *)
(* arithmetic.                                                             *)
(***************************************************************************)
SpinnerDuty ==
    <<139, 152, 164, 176, 187, 198, 208, 218, 226, 233, 240, 245, 249, 252,
      253, 253, 252, 250, 247, 242, 236, 229, 221, 212, 203, 192, 181, 169,
      157, 144, 132, 119, 106, 94, 82, 70, 59, 49, 39, 30, 23, 16, 10, 6, 2,
      0, 0, 0, 2, 5, 9, 14, 21, 28, 37, 46, 57, 67, 79, 91, 103, 116, 129,
      141>>

WaveDuty ==
    <<103, 107, 111, 115, 119, 123, 127, 131, 134, 138, 141, 145, 148, 151,
      154, 157, 160, 162, 165, 167, 169, 171, 173, 174, 175, 177, 178, 178,
      179, 179, 179, 179, 179, 179, 178, 177, 176, 175, 174, 172, 170, 169,
      166, 164, 162, 159, 156, 154, 151, 147, 144, 141, 137, 134, 130, 126,
      122, 119, 115, 111, 107, 103, 99, 95>>

(***************************************************************************)
(* The collaborators: ledcWrite, delay, Serial.printf.                     *)
(***************************************************************************)
\* ledcWrite(ledChannel, d), called when the clock reads t
ledcWrite(d, t) == duty' = d /\ dutyAt' = t /\ wrote' = TRUE

noWrite == UNCHANGED <<duty, dutyAt>> /\ wrote' = FALSE

\* the caller enters delay(ms) at position at of its call, with the loop
\* variables n and b
sleep(at, n, b, ms) ==
    pc' = [at |-> at, n |-> n, b |-> b, wake |-> clock + ms]

\* the call returns
returns == pc' = Out

\* delay(ms) inside update()
delay(at, ms) == sleep(at, 0, 0, ms) /\ blocked' = ms

\* update() ends without delay()
noDelay == UNCHANGED pc /\ blocked' = 0

(***************************************************************************)
(* LEDAnimator(int pin)                                                    *)
(***************************************************************************)
Init ==
    /\ currentState = IDLE
    /\ lastUpdate = 0
    /\ animationStep = 0
    /\ brightness = 0
    /\ direction = TRUE
    /\ pulsePhase = 0
    /\ millis0 = 0
    /\ clock = 0
    /\ pc = Out
    /\ duty = 0
    /\ dutyAt = 0
    /\ wrote = FALSE
    /\ blocked = 0
    /\ printed = FALSE
    /\ op = "new"
    /\ switches = 0
    /\ effects = 0
    /\ writes = 0

(***************************************************************************)
(* void setState(AnimationState state)                                     *)
(***************************************************************************)
\* setState without the test of currentState: every call restarts the pattern
setStateAlways(state) ==
    /\ currentState' = state
    /\ animationStep' = 0
    /\ UNCHANGED <<lastUpdate, brightness, direction>>
    /\ printed' = TRUE

\* setState that also restarts the cadence and the ramp
setStateRestart(state) ==
    IF currentState # state
    THEN /\ currentState' = state
         /\ animationStep' = 0
         /\ lastUpdate' = millis
         /\ brightness' = 0
         /\ UNCHANGED direction
         /\ printed' = TRUE
    ELSE /\ UNCHANGED engine
         /\ printed' = FALSE

\* setState that leaves the step counter alone
setStateKeepsStep(state) ==
    IF currentState # state
    THEN /\ currentState' = state
         /\ UNCHANGED <<animationStep, lastUpdate, brightness, direction>>
         /\ printed' = TRUE
    ELSE /\ UNCHANGED engine
         /\ printed' = FALSE

setState(state) ==
    IF currentState # state
    THEN /\ currentState' = state
         /\ animationStep' = 0
         /\ UNCHANGED <<lastUpdate, brightness, direction>>
         /\ printed' = TRUE
    ELSE /\ UNCHANGED engine
         /\ printed' = FALSE

(***************************************************************************)
(* The pattern routines.  Each is the body of one private method, run by   *)
(* update() for one value of currentState.                                 *)
(***************************************************************************)
\* breathingEffect that turns only at exactly 80
breathingEffectExact ==
    IF UGreater(Elapsed, 20)
    THEN LET up == brightness + 1
             down == brightness - 1
         IN  /\ lastUpdate' = millis
             /\ UNCHANGED <<currentState, animationStep, pulsePhase>>
             /\ printed' = FALSE
             /\ IF direction
                THEN /\ brightness' = up
                     /\ direction' = IF up = 80 THEN FALSE ELSE direction
                     /\ noDelay
                     /\ ledcWrite(up, clock)
                ELSE /\ brightness' = down
                     /\ IF down <= 0
                        THEN /\ direction' = TRUE
                             /\ delay("breathing", 300)
                             /\ noWrite
                        ELSE /\ direction' = direction
                             /\ noDelay
                             /\ ledcWrite(down, clock)
    ELSE /\ UNCHANGED <<engine, pulsePhase>>
         /\ printed' = FALSE
         /\ noDelay
         /\ noWrite

breathingEffect ==
    IF UGreater(Elapsed, 20)
    THEN LET up == brightness + 1
             down == brightness - 1
         IN  /\ lastUpdate' = millis
             /\ UNCHANGED <<currentState, animationStep, pulsePhase>>
             /\ printed' = FALSE
             /\ IF direction
                THEN /\ brightness' = up
                     /\ direction' = IF up >= 80 THEN FALSE ELSE direction
                     /\ noDelay
                     /\ ledcWrite(up, clock)
                ELSE /\ brightness' = down
                     /\ IF down <= 0
                        THEN /\ direction' = TRUE
                             /\ delay("breathing", 300)
                             /\ noWrite
                        ELSE /\ direction' = direction
                             /\ noDelay
                             /\ ledcWrite(down, clock)
    ELSE /\ UNCHANGED <<engine, pulsePhase>>
         /\ printed' = FALSE
         /\ noDelay
         /\ noWrite

recordingPulse ==
    IF UGreater(Elapsed, 8)
    THEN LET up == brightness + 10
             down == brightness - 10
         IN  /\ lastUpdate' = millis
             /\ UNCHANGED <<currentState, animationStep, pulsePhase>>
             /\ printed' = FALSE
             /\ noDelay
             /\ IF direction
                THEN /\ brightness' = up
                     /\ direction' = IF up >= 255 THEN FALSE ELSE direction
                     /\ ledcWrite(up, clock)
                ELSE /\ brightness' = down
                     /\ direction' = IF down <= 50 THEN TRUE ELSE direction
                     /\ ledcWrite(down, clock)
    ELSE /\ UNCHANGED <<engine, pulsePhase>>
         /\ printed' = FALSE
         /\ noDelay
         /\ noWrite

\* the brightness it computes is a local variable: the field is not assigned
processingSpinner ==
    IF UGreater(Elapsed, 30)
    THEN /\ lastUpdate' = millis
         /\ animationStep' = animationStep + 1
         /\ UNCHANGED <<currentState, brightness, direction, pulsePhase>>
         /\ printed' = FALSE
         /\ noDelay
         /\ ledcWrite(SpinnerDuty[animationStep + 1], clock)
    ELSE /\ UNCHANGED <<engine, pulsePhase>>
         /\ printed' = FALSE
         /\ noDelay
         /\ noWrite

\* uploadingBlink, errorFlash and lowBatteryWarning differ in the cadence and
\* in the "on" value only
blink(cadence, on) ==
    IF UGreater(Elapsed, cadence)
    THEN LET b == IF brightness = 0 THEN on ELSE 0
         IN  /\ lastUpdate' = millis
             /\ brightness' = b
             /\ UNCHANGED <<currentState, animationStep, direction, pulsePhase>>
             /\ printed' = FALSE
             /\ noDelay
             /\ ledcWrite(b, clock)
    ELSE /\ UNCHANGED <<engine, pulsePhase>>
         /\ printed' = FALSE
         /\ noDelay
         /\ noWrite

\* uploadingBlink with a digit of the cadence lost
uploadingBlinkFast == blink(10, 255)

uploadingBlink == blink(100, 255)

\* successFlash without the step limit: it flashes on and never hands over
successFlashForever ==
    IF UGreater(Elapsed, 150)
    THEN /\ lastUpdate' = millis
         /\ animationStep' = animationStep + 1
         /\ UNCHANGED <<currentState, brightness, direction, pulsePhase>>
         /\ printed' = FALSE
         /\ noDelay
         /\ ledcWrite(IF animationStep % 2 = 1 THEN 255 ELSE 0, clock)
    ELSE /\ UNCHANGED <<engine, pulsePhase>>
         /\ printed' = FALSE
         /\ noDelay
         /\ noWrite

\* successFlash with the step test off by one: a 7th flash
successFlashSeven ==
    IF animationStep <= 6 /\ UGreater(Elapsed, 150)
    THEN /\ lastUpdate' = millis
         /\ animationStep' = animationStep + 1
         /\ UNCHANGED <<currentState, brightness, direction, pulsePhase>>
         /\ printed' = FALSE
         /\ noDelay
         /\ ledcWrite(IF animationStep % 2 = 1 THEN 255 ELSE 0, clock)
    ELSE IF animationStep > 6
    THEN /\ setState(IDLE)
         /\ UNCHANGED pulsePhase
         /\ noDelay
         /\ noWrite
    ELSE /\ UNCHANGED <<engine, pulsePhase>>
         /\ printed' = FALSE
         /\ noDelay
         /\ noWrite

successFlash ==
    IF animationStep < 6 /\ UGreater(Elapsed, 150)
    THEN /\ lastUpdate' = millis
         /\ animationStep' = animationStep + 1
         /\ UNCHANGED <<currentState, brightness, direction, pulsePhase>>
         /\ printed' = FALSE
         /\ noDelay
         /\ ledcWrite(IF animationStep % 2 = 1 THEN 255 ELSE 0, clock)
    ELSE IF animationStep >= 6
    THEN /\ setState(IDLE)
         /\ UNCHANGED pulsePhase
         /\ noDelay
         /\ noWrite
    ELSE /\ UNCHANGED <<engine, pulsePhase>>
         /\ printed' = FALSE
         /\ noDelay
         /\ noWrite

\* errorFlash that hands over to IDLE after its first flash
errorFlashOnce ==
    IF UGreater(Elapsed, 50) /\ brightness # 0
    THEN /\ setState(IDLE)
         /\ UNCHANGED pulsePhase
         /\ noDelay
         /\ noWrite
    ELSE blink(50, 255)

errorFlash == blink(50, 255)

\* connectingPulse without the pause at the end of the cycle
connectingPulseNoPause ==
    IF UGreater(Elapsed, 200)
    THEN /\ lastUpdate' = millis
         /\ UNCHANGED <<currentState, animationStep, brightness, direction>>
         /\ printed' = FALSE
         /\ CASE pulsePhase \in {0, 2} ->
                   /\ ledcWrite(255, clock)
                   /\ noDelay
                   /\ pulsePhase' = pulsePhase + 1
              [] pulsePhase \in {1, 3} ->
                   /\ ledcWrite(0, clock)
                   /\ noDelay
                   /\ pulsePhase' = pulsePhase + 1
              [] pulsePhase = 4 ->
                   /\ ledcWrite(0, clock)
                   /\ noDelay
                   /\ pulsePhase' = 0
              [] OTHER ->
                   /\ noWrite
                   /\ noDelay
                   /\ pulsePhase' = pulsePhase + 1
    ELSE /\ UNCHANGED <<engine, pulsePhase>>
         /\ printed' = FALSE
         /\ noDelay
         /\ noWrite

connectingPulse ==
    IF UGreater(Elapsed, 200)
    THEN /\ lastUpdate' = millis
         /\ UNCHANGED <<currentState, animationStep, brightness, direction>>
         /\ printed' = FALSE
         /\ CASE pulsePhase \in {0, 2} ->
                   /\ ledcWrite(255, clock)
                   /\ noDelay
                   /\ pulsePhase' = pulsePhase + 1
              [] pulsePhase \in {1, 3} ->
                   /\ ledcWrite(0, clock)
                   /\ noDelay
                   /\ pulsePhase' = pulsePhase + 1
              [] pulsePhase = 4 ->
                   /\ ledcWrite(0, clock)
                   /\ delay("connecting", 600)
                   /\ pulsePhase' = -1
              [] OTHER ->
                   /\ noWrite
                   /\ noDelay
                   /\ pulsePhase' = pulsePhase + 1
    ELSE /\ UNCHANGED <<engine, pulsePhase>>
         /\ printed' = FALSE
         /\ noDelay
         /\ noWrite

\* the brightness it computes is a local variable: the field is not assigned
listeningWave ==
    IF UGreater(Elapsed, 40)
    THEN /\ lastUpdate' = millis
         /\ animationStep' = animationStep + 1
         /\ UNCHANGED <<currentState, brightness, direction, pulsePhase>>
         /\ printed' = FALSE
         /\ noDelay
         /\ ledcWrite(WaveDuty[animationStep + 1], clock)
    ELSE /\ UNCHANGED <<engine, pulsePhase>>
         /\ printed' = FALSE
         /\ noDelay
         /\ noWrite

\* brutalFeedbackEffect without the pause after the first write
brutalFeedbackNoPause ==
    IF animationStep = 0
    THEN /\ ledcWrite(0, clock)
         /\ noDelay
         /\ animationStep' = 1
         /\ UNCHANGED <<currentState, lastUpdate, brightness, direction,
                        pulsePhase>>
         /\ printed' = FALSE
    ELSE IF animationStep <= 6 /\ UGreater(Elapsed, 100)
    THEN /\ lastUpdate' = millis
         /\ animationStep' = animationStep + 1
         /\ UNCHANGED <<currentState, brightness, direction, pulsePhase>>
         /\ printed' = FALSE
         /\ noDelay
         /\ ledcWrite(IF animationStep % 2 = 1 THEN 255 ELSE 0, clock)
    ELSE IF animationStep > 6
    THEN /\ setState(LISTENING)
         /\ UNCHANGED pulsePhase
         /\ noDelay
         /\ noWrite
    ELSE /\ UNCHANGED <<engine, pulsePhase>>
         /\ printed' = FALSE
         /\ noDelay
         /\ noWrite

\* brutalFeedbackEffect with the step tests off by one: 5 flashes
brutalFeedbackFive ==
    IF animationStep = 0
    THEN /\ ledcWrite(0, clock)
         /\ delay("brutal", 500)
         /\ UNCHANGED <<engine, pulsePhase>>
         /\ printed' = FALSE
    ELSE IF animationStep < 6 /\ UGreater(Elapsed, 100)
    THEN /\ lastUpdate' = millis
         /\ animationStep' = animationStep + 1
         /\ UNCHANGED <<currentState, brightness, direction, pulsePhase>>
         /\ printed' = FALSE
         /\ noDelay
         /\ ledcWrite(IF animationStep % 2 = 1 THEN 255 ELSE 0, clock)
    ELSE IF animationStep >= 6
    THEN /\ setState(LISTENING)
         /\ UNCHANGED pulsePhase
         /\ noDelay
         /\ noWrite
    ELSE /\ UNCHANGED <<engine, pulsePhase>>
         /\ printed' = FALSE
         /\ noDelay
         /\ noWrite

brutalFeedbackEffect ==
    IF animationStep = 0
    THEN /\ ledcWrite(0, clock)
         /\ delay("brutal", 500)
         /\ UNCHANGED <<engine, pulsePhase>>
         /\ printed' = FALSE
    ELSE IF animationStep <= 6 /\ UGreater(Elapsed, 100)
    THEN /\ lastUpdate' = millis
         /\ animationStep' = animationStep + 1
         /\ UNCHANGED <<currentState, brightness, direction, pulsePhase>>
         /\ printed' = FALSE
         /\ noDelay
         /\ ledcWrite(IF animationStep % 2 = 1 THEN 255 ELSE 0, clock)
    ELSE IF animationStep > 6
    THEN /\ setState(LISTENING)
         /\ UNCHANGED pulsePhase
         /\ noDelay
         /\ noWrite
    ELSE /\ UNCHANGED <<engine, pulsePhase>>
         /\ printed' = FALSE
         /\ noDelay
         /\ noWrite

\* lowBatteryWarning blinking at full duty
lowBatteryFull == blink(1000, 255)

lowBatteryWarning == blink(1000, 100)

(***************************************************************************)
(* void update()                                                           *)
(***************************************************************************)
update ==
    CASE currentState = IDLE -> breathingEffect
      [] currentState = RECORDING -> recordingPulse
      [] currentState = PROCESSING -> processingSpinner
      [] currentState = UPLOADING -> uploadingBlink
      [] currentState = SUCCESS -> successFlash
      [] currentState = ERROR -> errorFlash
      [] currentState = CONNECTING -> connectingPulse
      [] currentState = LISTENING -> listeningWave
      [] currentState = BRUTAL_FEEDBACK -> brutalFeedbackEffect
      [] currentState = LOW_BATTERY -> lowBatteryWarning
(***************************************************************************)
(* The rest of the three routines that call delay(), run when the delay    *)
(* has ended.                                                              *)
(***************************************************************************)
\* breathingEffect after delay(300): ledcWrite(ledChannel, brightness)
breathingEffectRest ==
    /\ ledcWrite(brightness, clock)
    /\ UNCHANGED <<engine, pulsePhase>>

\* connectingPulse after delay(600): break; pulsePhase++
connectingPulseRest ==
    /\ pulsePhase' = pulsePhase + 1
    /\ UNCHANGED engine
    /\ noWrite

\* brutalFeedbackEffect after delay(500): animationStep = 1
brutalFeedbackRest ==
    /\ animationStep' = 1
    /\ UNCHANGED <<currentState, lastUpdate, brightness, direction,
                   pulsePhase>>
    /\ noWrite

(***************************************************************************)
(* The one-shot effects.  All of them write the PWM channel 0, the one the *)
(* constructor gives the animator, and touch no field of it.               *)
(***************************************************************************)
\* One-shot effects are started at most MaxEffect times, showWiFiConnected
\* and showButtonPress no later than EffectBy ms into the run; begin() is
\* called on the freshly constructed animator only.
MaxEffect == 1

EffectBy == 25

\* what every step of an effect leaves alone
effectFrame ==
    /\ UNCHANGED <<engine, pulsePhase, millis0, clock, blocked, switches,
                   writes>>
    /\ printed' = FALSE

\* begin(), startupAnimation() up to the first delay(3)
begin ==
    /\ ledcWrite(0, clock)
    /\ sleep("fadeIn", 0, 0, 3)

\* startupAnimation() from the end of one delay to the next, or to its end.
\* n is cycle in the fades and i in the flashes.
startupAnimation ==
    LET n == pc.n
        b == pc.b
    IN  CASE pc.at = "fadeIn" ->
               IF b + 5 <= 255
               THEN /\ ledcWrite(b + 5, clock)
                    /\ sleep("fadeIn", n, b + 5, 3)
               ELSE /\ ledcWrite(255, clock)
                    /\ sleep("fadeOut", n, 255, 3)
          [] pc.at = "fadeOut" ->
               IF b - 5 >= 0
               THEN /\ ledcWrite(b - 5, clock)
                    /\ sleep("fadeOut", n, b - 5, 3)
               ELSE IF n + 1 < 3
               THEN /\ ledcWrite(0, clock)
                    /\ sleep("fadeIn", n + 1, 0, 3)
               ELSE /\ ledcWrite(255, clock)
                    /\ sleep("flashOn", 0, 0, 50)
          [] pc.at = "flashOn" ->
               /\ ledcWrite(0, clock)
               /\ sleep("flashOff", n, 0, 50)
          [] pc.at = "flashOff" ->
               IF n + 1 < 5
               THEN /\ ledcWrite(255, clock)
                    /\ sleep("flashOn", n + 1, 0, 50)
               ELSE /\ ledcWrite(0, clock)
                    /\ returns

\* showWiFiConnected() up to the first delay(2)
showWiFiConnected ==
    /\ ledcWrite(0, clock)
    /\ sleep("waveUp", 0, 0, 2)

\* showWiFiConnected() from the end of one delay to the next, or to its end
showWiFiConnectedRest ==
    LET n == pc.n
        b == pc.b
    IN  CASE pc.at = "waveUp" ->
               IF b + 3 <= 255
               THEN /\ ledcWrite(b + 3, clock)
                    /\ sleep("waveUp", n, b + 3, 2)
               ELSE /\ ledcWrite(255, clock)
                    /\ sleep("waveDown", n, 255, 2)
          [] pc.at = "waveDown" ->
               IF b - 3 >= 0
               THEN /\ ledcWrite(b - 3, clock)
                    /\ sleep("waveDown", n, b - 3, 2)
               ELSE IF n + 1 < 2
               THEN /\ ledcWrite(0, clock)
                    /\ sleep("waveUp", n + 1, 0, 2)
               ELSE /\ noWrite
                    /\ returns

\* showButtonPress() up to delay(50)
showButtonPress ==
    /\ ledcWrite(255, clock)
    /\ sleep("press", 0, 0, 50)

\* showButtonPress() after delay(50)
showButtonPressRest ==
    /\ ledcWrite(0, clock)
    /\ returns

(***************************************************************************)
(* The actions.                                                            *)
(***************************************************************************)
\* the count of update()'s writes after a step
Counted ==
    IF currentState' # currentState THEN 0
    ELSE IF wrote' /\ writes < MaxCount THEN writes + 1
    ELSE writes

\* the loop calls setState(s), the state having been changed fewer than k
\* times, no later than t
SetState(s, k, t) ==
    /\ pc.at = "out"
    /\ clock <= t
    /\ s # currentState => switches < k
    /\ switches' = IF s # currentState THEN switches + 1 ELSE switches
    /\ op' = "setState"
    /\ setState(s)
    /\ UNCHANGED <<pulsePhase, millis0, clock, pc, duty, dutyAt, blocked,
                   effects>>
    /\ wrote' = FALSE
    /\ writes' = Counted

\* the loop calls update(), no later than t: the call runs to its end or to
\* its delay()
Update(t) ==
    /\ pc.at = "out"
    /\ clock <= t
    /\ currentState \in {PROCESSING, LISTENING} => animationStep < MaxStep
    /\ op' = "update"
    /\ update
    /\ UNCHANGED <<millis0, clock, switches, effects>>
    /\ writes' = Counted

\* the delay() inside the call of update() has ended: the call runs
\* to its end
UpdateResume ==
    /\ pc.at \in {"breathing", "connecting", "brutal"}
    /\ clock = pc.wake
    /\ op' = "resume"
    /\ CASE pc.at = "breathing" -> breathingEffectRest
         [] pc.at = "connecting" -> connectingPulseRest
         [] pc.at = "brutal" -> brutalFeedbackRest
    /\ returns
    /\ printed' = FALSE
    /\ UNCHANGED <<millis0, clock, blocked, switches, effects>>
    /\ writes' = Counted

\* the loop calls begin() on the freshly constructed animator
Begin ==
    /\ pc.at = "out"
    /\ op = "new"
    /\ effects < MaxEffect
    /\ effects' = effects + 1
    /\ op' = "begin"
    /\ begin
    /\ effectFrame

\* a delay() of startupAnimation() has ended
BeginStep ==
    /\ pc.at \in {"fadeIn", "fadeOut", "flashOn", "flashOff"}
    /\ clock = pc.wake
    /\ op' = "begin"
    /\ startupAnimation
    /\ effectFrame
    /\ UNCHANGED effects

\* the loop calls showWiFiConnected(led)
ShowWiFiConnected ==
    /\ pc.at = "out"
    /\ clock <= EffectBy
    /\ effects < MaxEffect
    /\ effects' = effects + 1
    /\ op' = "wifi"
    /\ showWiFiConnected
    /\ effectFrame

\* a delay() of showWiFiConnected() has ended
WiFiStep ==
    /\ pc.at \in {"waveUp", "waveDown"}
    /\ clock = pc.wake
    /\ op' = "wifi"
    /\ showWiFiConnectedRest
    /\ effectFrame
    /\ UNCHANGED effects

\* the loop calls showButtonPress(led)
ShowButtonPress ==
    /\ pc.at = "out"
    /\ clock <= EffectBy
    /\ effects < MaxEffect
    /\ effects' = effects + 1
    /\ op' = "button"
    /\ showButtonPress
    /\ effectFrame

\* the delay() of showButtonPress() has ended
ButtonStep ==
    /\ pc.at = "press"
    /\ clock = pc.wake
    /\ op' = "button"
    /\ showButtonPressRest
    /\ effectFrame
    /\ UNCHANGED effects

\* the cadence of the active pattern: the literal its routine compares
\* millis() - lastUpdate with
Cadence(s) ==
    CASE s = IDLE -> 20
      [] s = RECORDING -> 8
      [] s = PROCESSING -> 30
      [] s = UPLOADING -> 100
      [] s = SUCCESS -> 150
      [] s = ERROR -> 50
      [] s = CONNECTING -> 200
      [] s = LISTENING -> 40
      [] s = BRUTAL_FEEDBACK -> 100
      [] s = LOW_BATTERY -> 1000

\* The time that may pass in one step, the calls being made until t.  While
\* the caller is inside delay() the time passes to the end of the delay, when
\* the call goes on.  Between calls the loop polls finely: time passes up to
\* the last instant at which the active pattern's tick is not yet due
\* (Elapsed = cadence), or up to MaxLate ms past it, as long as that is no
\* later than t.
Deltas(t) ==
    IF pc.at # "out"
    THEN {d \in {pc.wake - clock} : d >= 1}
    ELSE IF Elapsed >= 0
    THEN {d \in {Cadence(currentState) + late - Elapsed : late \in 0..MaxLate} :
             d >= 1 /\ clock + d <= t}
    ELSE {}

\* d milliseconds pass
Advance(d) ==
    /\ clock' = clock + d
    /\ op' = "clock"
    /\ wrote' = FALSE
    /\ printed' = FALSE
    /\ UNCHANGED <<engine, pulsePhase, millis0, pc, duty, dutyAt, blocked,
                   switches, effects, writes>>

\* time passes
Pass(t) == \E d \in Deltas(t) : Advance(d)

\* The cooperative loop: the driver loop calls setState (changing the state
\* at most k times) and update() in any order until time t, and no one-shot
\* effect runs.
Loop(k, t) ==
    \/ \E s \in AnimationState : SetState(s, k, t)
    \/ Update(t)
    \/ UpdateResume
    \/ Pass(t)

\* The driver loop with the one-shot effects: it calls every public
\* function, each call running to its end before the next.
Firmware(k, t) ==
    \/ \E s \in AnimationState : SetState(s, k, t)
    \/ Update(t)
    \/ UpdateResume
    \/ Begin
    \/ BeginStep
    \/ ShowWiFiConnected
    \/ WiFiStep
    \/ ShowButtonPress
    \/ ButtonStep
    \/ Pass(t)

Next == Firmware(MaxSwitch, MaxTime)

Spec == Init /\ [][Next]_vars

\* the cooperative loop without the one-shot effects, with the same bounds
NextLoop == Loop(MaxSwitch, MaxTime)

SpecLoop == Init /\ [][NextLoop]_vars

\* a long run of the cooperative loop with at most one change of state
LongSwitch == 1

LongTime == 3800

NextLong == Loop(LongSwitch, LongTime)

SpecLong == Init /\ [][NextLong]_vars

\* A run of the cooperative loop across the wrap of millis(): the animator
\* is constructed WrapLead ms before the counter wraps (the constructor sets
\* lastUpdate to 0, not to millis()) and runs until WrapAfter ms after the
\* wrap.
WrapLead == 200

WrapAfter == 240

InitWrap ==
    /\ currentState = IDLE
    /\ lastUpdate = 0
    /\ animationStep = 0
    /\ brightness = 0
    /\ direction = TRUE
    /\ pulsePhase = 0
    /\ millis0 = 0 - WrapLead
    /\ clock = 0
    /\ pc = Out
    /\ duty = 0
    /\ dutyAt = 0
    /\ wrote = FALSE
    /\ blocked = 0
    /\ printed = FALSE
    /\ op = "new"
    /\ switches = 0
    /\ effects = 0
    /\ writes = 0

NextWrap == Loop(LongSwitch, WrapLead + WrapAfter)

SpecWrap == InitWrap /\ [][NextWrap]_vars

\* a run of the cooperative loop with a return to a state left earlier:
\* three changes of state
ReturnSwitch == 3

ReturnTime == 404

NextReturn == Loop(ReturnSwitch, ReturnTime)

SpecReturn == Init /\ [][NextReturn]_vars

\* A run of the cooperative loop in which update() keeps being called and
\* the clock keeps advancing until LiveTime, and setState is not called
\* while a self-terminating pattern (SUCCESS, BRUTAL_FEEDBACK) plays.
LiveTime == 1300

NextLive ==
    \/ /\ currentState \notin {SUCCESS, BRUTAL_FEEDBACK}
       /\ \E s \in AnimationState : SetState(s, LongSwitch, LiveTime)
    \/ Update(LiveTime)
    \/ UpdateResume
    \/ Pass(LiveTime)

SpecLive ==
    /\ Init
    /\ [][NextLive]_vars
    /\ WF_vars(Update(LiveTime))
    /\ WF_vars(UpdateResume)
    /\ WF_vars(Pass(LiveTime))

\* A run of the cooperative loop with a return to IDLE in which update()
\* keeps being called and the clock keeps advancing until StaleTime.
StaleTime == 360

NextStale == Loop(MaxSwitch, StaleTime)

SpecStale ==
    /\ Init
    /\ [][NextStale]_vars
    /\ WF_vars(Update(StaleTime))
    /\ WF_vars(UpdateResume)
    /\ WF_vars(Pass(StaleTime))

(***************************************************************************)
(* The claims.                                                             *)
(***************************************************************************)
\* a step of a call of update(): its start, or its rest after the delay()
UpdateOp == {"update", "resume"}

\* C1: every duty value that update() writes to the PWM output is in 0..255.
DutyInRange == (op \in UpdateOp /\ wrote) => duty \in 0..255

\* C2: update() never blocks: no call of update() spends time inside the
\* call (the pauses are timestamps a later update() checks).
UpdateNeverBlocks ==
    op = "update" => (blocked = 0 /\ pc.at = "out")

\* C3: Success pattern: after the state has become SUCCESS, exactly 6
\* qualifying ticks each write one duty, the written values alternate
\* between 0 and 255, no 7th duty is written in SUCCESS, and the update()
\* after the 6th write leaves currentState = IDLE with animationStep = 0.
SuccessPattern ==
    /\ [](currentState = SUCCESS => writes <= 6)
    /\ [][(op' \in UpdateOp /\ currentState = SUCCESS) =>
            /\ (writes < 6 /\ UGreater(Elapsed, 150)) => wrote'
            /\ wrote' => /\ writes < 6
                         /\ duty' \in {0, 255}
                         /\ writes >= 1 => duty' # duty
            /\ writes < 6 => currentState' = SUCCESS
            /\ writes = 6 => /\ ~wrote'
                             /\ currentState' = IDLE
                             /\ animationStep' = 0]_vars

\* C3 witness: update() has just ended a Success pattern whose last flash
\* was written at full brightness.
SuccessDone ==
    /\ op = "update"
    /\ printed
    /\ currentState = IDLE
    /\ animationStep = 0
    /\ duty = 255

\* C4: from the constructed engine, after setState(RECORDING) and 8 ms, the
\* next update() writes a duty >= 50.
RecordingStartsAtFloor ==
    (op = "update" /\ currentState = RECORDING /\ switches = 1 /\ clock = 8)
        => (wrote /\ duty >= 50)

\* C5: setState(s) called while currentState = s changes nothing: step,
\* lastUpdate, brightness, direction and currentState stay as they were.
SetStateSameIsNoOp ==
    [][(op' = "setState" /\ currentState' = currentState) =>
          UNCHANGED <<animationStep, lastUpdate, brightness, direction>>]_vars

\* C5 witness: a redundant setState(PROCESSING) in the middle of the
\* pattern.
RedundantSetStateMidPattern ==
    /\ op = "setState"
    /\ ~printed
    /\ currentState = PROCESSING
    /\ animationStep > 0

\* C6: setState(s) with s # currentState sets currentState = s and
\* animationStep = 0, leaves lastUpdate, brightness and direction as they
\* were, and writes nothing to the PWM output.
SetStateChangeFrame ==
    [][\A s \in AnimationState :
          (SetState(s, MaxSwitch, MaxTime) /\ s # currentState) =>
              /\ currentState' = s
              /\ animationStep' = 0
              /\ UNCHANGED <<lastUpdate, brightness, direction>>
              /\ UNCHANGED <<duty, dutyAt>>
              /\ ~wrote']_vars

\* C6 witness: a change of state that found the engine mid-ramp, descending.
SetStateChangedMidRamp ==
    /\ op = "setState"
    /\ printed
    /\ animationStep = 0
    /\ brightness > 0
    /\ lastUpdate > 0
    /\ ~direction

\* C7: update() changes currentState only from SUCCESS to IDLE and from
\* BRUTAL_FEEDBACK to LISTENING.
OnlySelfTerminating ==
    [][(op' \in UpdateOp /\ currentState' # currentState) =>
          \/ currentState = SUCCESS /\ currentState' = IDLE
          \/ currentState = BRUTAL_FEEDBACK /\ currentState' = LISTENING]_vars

\* C7 witness: the Error pattern has flashed 8 times and is still running.
ErrorKeepsRunning ==
    /\ op = "update"
    /\ wrote
    /\ currentState = ERROR
    /\ writes >= 8

\* C8: BrutalFeedback lead-in: the first update() after the state has become
\* BRUTAL_FEEDBACK writes duty 0 whatever the elapsed time, and the first
\* toggle is written no earlier than 500 ms after that write.
BrutalLeadIn ==
    [][(op' \in UpdateOp /\ currentState = BRUTAL_FEEDBACK) =>
          /\ (op' = "update" /\ writes = 0) => (wrote' /\ duty' = 0)
          /\ (writes = 1 /\ wrote') => dutyAt' - dutyAt >= 500]_vars

\* C8 witness: the first toggle has been written.
BrutalFirstToggle ==
    /\ op = "update"
    /\ wrote
    /\ currentState = BRUTAL_FEEDBACK
    /\ writes = 2
    /\ duty = 255

\* C9: BrutalFeedback termination: after the lead-in exactly 6 toggle ticks
\* write duties alternating between 255 and 0, no 7th toggle is written, and
\* the update() after the 6th toggle sets currentState = LISTENING with
\* animationStep = 0.
BrutalTermination ==
    /\ [](currentState = BRUTAL_FEEDBACK => writes <= 7)
    /\ [][(op' = "update" /\ currentState = BRUTAL_FEEDBACK) =>
            /\ (writes \in 1..6 /\ UGreater(Elapsed, 100)) => wrote'
            /\ (writes >= 1 /\ wrote') => /\ writes <= 6
                                          /\ duty' \in {0, 255}
                                          /\ duty' # duty
            /\ writes <= 6 => currentState' = BRUTAL_FEEDBACK
            /\ writes = 7 => /\ ~wrote'
                             /\ currentState' = LISTENING
                             /\ animationStep' = 0]_vars

\* C9 witness: update() has just ended a BrutalFeedback pattern.
BrutalDone ==
    /\ op = "update"
    /\ printed
    /\ currentState = LISTENING
    /\ animationStep = 0
    /\ duty = 0

\* C10: Idle bottom pause: once a descending tick has written duty 0, the
\* next change of the written duty comes no earlier than 300 ms after that
\* write.
IdleBottomPause ==
    [][(/\ op' = "update"
        /\ currentState = IDLE
        /\ blocked = 300
        /\ duty = 0
        /\ wrote'
        /\ duty' # duty) => dutyAt' - dutyAt >= 300]_vars

\* The calls of update() that do not read the clock: the first one in
\* BRUTAL_FEEDBACK, and the one that hands over to the next state at the end
\* of SUCCESS and of BRUTAL_FEEDBACK.
Ungated ==
    \/ currentState = BRUTAL_FEEDBACK /\ (animationStep = 0 \/ animationStep > 6)
    \/ currentState = SUCCESS /\ animationStep >= 6

\* C11 (as stated): in every state an update() called when less than the
\* pattern's cadence has elapsed since lastUpdate changes nothing and writes
\* nothing.
CadenceGatingEveryState ==
    [][(/\ op' = "update"
        /\ ~UGreater(Elapsed, Cadence(currentState))
        /\ Elapsed # Cadence(currentState)) =>
          /\ UNCHANGED <<engine, pulsePhase, duty, dutyAt>>
          /\ ~wrote']_vars

\* C11 (amended): an update() called when no more than the pattern's cadence
\* has elapsed since lastUpdate changes nothing and writes nothing, except
\* the first update() in BRUTAL_FEEDBACK (step 0) and the handing-over
\* update() of SUCCESS (step 6) and BRUTAL_FEEDBACK (step 7), which act
\* whatever the elapsed time.
CadenceGating ==
    [][(/\ op' = "update"
        /\ ~UGreater(Elapsed, Cadence(currentState))
        /\ ~Ungated) =>
          /\ UNCHANGED <<engine, pulsePhase, duty, dutyAt, pc>>
          /\ ~wrote']_vars

\* C11 witness: update() was called in UPLOADING exactly 100 ms after the
\* last tick and did nothing.
UpdateCalledEarly ==
    /\ op = "update"
    /\ ~wrote
    /\ currentState = UPLOADING
    /\ writes >= 1
    /\ Elapsed = 100

\* C12: the patterns decide from (millis() - lastUpdate) mod 2^32: when the
\* counter wraps between two calls of update() a pattern neither stalls nor
\* fires early.  Where lastUpdate is what the counter read at the last write
\* (at clock dutyAt), a clock-gated update() ticks exactly when the true time
\* since that write, clock - dutyAt, exceeds the cadence.
ClockWrapSafe ==
    [][(/\ op' = "update"
        /\ ~Ungated
        /\ Add32(millis0, dutyAt) = lastUpdate) =>
          /\ lastUpdate' # lastUpdate <=>
                 clock - dutyAt > Cadence(currentState)
          /\ lastUpdate' # lastUpdate => lastUpdate' = millis]_vars

\* C12 witness: UPLOADING ticked before the wrap and ticks again less than
\* one cadence after it.
TickAcrossWrap ==
    /\ op = "update"
    /\ wrote
    /\ currentState = UPLOADING
    /\ writes >= 2
    /\ millis0 < 0
    /\ millis \in 0..99
    /\ lastUpdate = millis

\* C13: every duty that update() writes while currentState is IDLE,
\* however IDLE was entered, is in 0..80 (and differs by 1 from the
\* previous IDLE write).
IdleRampRange ==
    (op \in UpdateOp /\ wrote /\ currentState = IDLE) => duty \in 0..80

\* C14: whenever currentState changes to CONNECTING the phase counter
\* restarts at 0, so the first duty written after entry is 255.
ConnectingStartsAtPhaseZero ==
    (op = "update" /\ wrote /\ currentState = CONNECTING /\ writes = 1) =>
        duty = 255

\* C15: while currentState stays CONNECTING every qualifying tick writes,
\* the writes follow the cycle 255, 0, 255, 0, 0 (phases 0..4, each write
\* moves to the next phase, the last one by way of the pause, at whose end
\* the phase is 0 again), and the phase-0 write that follows a phase-4 write
\* comes no earlier than 600 ms after it.
ConnectingCycle ==
    [][(op' \in UpdateOp /\ currentState = CONNECTING) =>
          /\ (op' = "update" /\ UGreater(Elapsed, 200)) => wrote'
          /\ wrote' =>
               /\ pulsePhase \in 0..4
               /\ duty' = (IF pulsePhase \in {0, 2} THEN 255 ELSE 0)
               /\ pulsePhase < 4 => pulsePhase' = pulsePhase + 1
               /\ pulsePhase = 4 => pc'.at = "connecting"
               /\ (pulsePhase = 0 /\ writes >= 1) => dutyAt' - dutyAt >= 600
          /\ op' = "resume" => (~wrote' /\ pulsePhase' = 0)]_vars

\* C15 witness: the first write of the second cycle.
ConnectingSecondCycle ==
    /\ op = "update"
    /\ wrote
    /\ currentState = CONNECTING
    /\ writes = 6
    /\ duty = 255
    /\ pulsePhase = 1

\* C16: with update() called again and again, the clock advancing and no
\* outside setState, SUCCESS eventually gives way to IDLE and
\* BRUTAL_FEEDBACK to LISTENING (stated for the entries that leave the run
\* time for the 6 flashes, resp. the 500 ms lead-in and the 6 toggles).
SelfTerminationIsLive ==
    /\ (currentState = SUCCESS /\ clock + 6 * (150 + MaxLate) <= LiveTime)
           ~> (currentState = IDLE)
    /\ (currentState = BRUTAL_FEEDBACK
          /\ clock + 500 + 6 * (100 + MaxLate) <= LiveTime)
           ~> (currentState = LISTENING)

\* C16 witness: BRUTAL_FEEDBACK, entered with the time to finish, has handed
\* over to LISTENING.
BrutalHandedOver ==
    /\ op = "update"
    /\ printed
    /\ currentState = LISTENING
    /\ switches = 1
    /\ duty = 0
    /\ dutyAt >= 500 + 6 * 101

\* C17: after every update() that writes a duty d the brightness field
\* equals d.
BrightnessIsLastDuty ==
    (op \in UpdateOp /\ wrote) => brightness = duty

\* C18: whatever brightness the earlier pattern left, every duty written in
\* UPLOADING or ERROR is 0 or 255, every duty written in LOW_BATTERY is 0 or
\* 100, and within one stay in such a state a write never repeats the duty
\* of the write before it.
BlinkDuties ==
    [][(op' \in UpdateOp /\ wrote') =>
          /\ currentState \in {UPLOADING, ERROR} => duty' \in {0, 255}
          /\ currentState = LOW_BATTERY => duty' \in {0, 100}
          /\ (currentState \in {UPLOADING, ERROR, LOW_BATTERY} /\ writes >= 1)
                => duty' # duty]_vars

\* C18 witness: LOW_BATTERY, entered with a brightness other than 0 left by
\* IDLE, has written 0 and then 100.
LowBatterySecondBlink ==
    /\ op = "update"
    /\ wrote
    /\ currentState = LOW_BATTERY
    /\ writes = 2
    /\ duty = 100
    /\ brightness = 100

\* C19: animationStep is in 0..6 while currentState is SUCCESS and in 0..7
\* while it is BRUTAL_FEEDBACK; in IDLE, RECORDING, UPLOADING, ERROR,
\* CONNECTING and LOW_BATTERY it is 0 and update() never changes it.
StepBounds ==
    /\ [](currentState = SUCCESS => animationStep \in 0..6)
    /\ [](currentState = BRUTAL_FEEDBACK => animationStep \in 0..7)
    /\ [](currentState \in {IDLE, RECORDING, UPLOADING, ERROR, CONNECTING,
                            LOW_BATTERY} => animationStep = 0)
    /\ [][(/\ op' \in UpdateOp
           /\ currentState \in {IDLE, RECORDING, UPLOADING, ERROR, CONNECTING,
                                LOW_BATTERY}) =>
             animationStep' = animationStep]_vars

\* C19 witness: BRUTAL_FEEDBACK after its last toggle, with step 7.
BrutalAtLastStep ==
    /\ currentState = BRUTAL_FEEDBACK
    /\ animationStep = 7
    /\ op = "update"
    /\ wrote

\* The ticks IDLE needs to bring brightness into 0..80: one per unit of the
\* distance, and two more where the ramp leads away and must first turn
\* round.
TicksToRange ==
    IF brightness > 80
    THEN brightness - 80 + (IF direction THEN 2 ELSE 0)
    ELSE IF brightness < 0
    THEN (0 - brightness) + (IF direction THEN 0 ELSE 2)
    ELSE 0

\* The time those ticks take at most, the rest of a delay(300) under way or
\* the one ahead (the ramp leads down from below 0) included.
TimeToRange ==
    TicksToRange * (20 + MaxLate)
        + (IF pc.at = "breathing" THEN pc.wake - clock
           ELSE IF brightness < 0 /\ ~direction THEN 300
           ELSE 0)

\* C20: when currentState is IDLE with brightness outside 0..80, update()
\* keeps being called on time and no setState is called, brightness
\* eventually comes into 0..80 (stated for the states that leave the run
\* the time for the ticks needed); and once an IDLE tick has left it in
\* 0..80 no later tick of the same stay takes it out.
IdleRecovers ==
    /\ (/\ currentState = IDLE
        /\ brightness \notin 0..80
        /\ clock + TimeToRange <= StaleTime)
           ~> (brightness \in 0..80 \/ currentState # IDLE)
    /\ [][(/\ op' \in UpdateOp
           /\ currentState = IDLE
           /\ writes >= 1
           /\ brightness \in 0..80) => brightness' \in 0..80]_vars

\* C20 witness: IDLE, entered with the brightness 90 that RECORDING left,
\* has come down to 79.
IdleBackInRange ==
    /\ op = "update"
    /\ wrote
    /\ currentState = IDLE
    /\ switches = 2
    /\ writes >= 8
    /\ brightness = 79
    /\ ~direction

====
